---- MODULE Spec2Model ----
(***************************************************************************)
(* The artifact cache of the Arrhenius web API (src/api.py): the three     *)
(* request handlers scientific_dataset, single_model_data and              *)
(* multi_model_data, run by concurrent server threads over one output      *)
(* directory tree, with ensure_model_results and ensure_image_output as    *)
(* the "ensure present" steps and img_fs_lock as the only lock.            *)
(*                                                                         *)
(* Every step of a handler that reads or writes the file system or the     *)
(* lock is one action, so that every interleaving of the handlers is a     *)
(* behaviour.  Strings are sequences of tokens, paths are sequences of     *)
(* path components.                                                        *)
(***************************************************************************)
EXTENDS Integers, Sequences, FiniteSets, TLC

\* ------------------------------------------------------------------ bounds
MaxThreads == 2      \* server threads handling requests in parallel
MaxRuns == 2         \* distinct configurations (run ids) clients ask for
MaxSeg == 1          \* time segments 1..MaxSeg of a run; segment 0 is the average
MaxRequests == 3     \* requests the server receives in all

Threads == 1..MaxThreads
RunIds == 1..MaxRuns
Segs == 0..MaxSeg

VARIABLES
    pc,             \* [Threads -> position in the handler]
    kind,           \* which endpoint the thread is serving
    run,            \* config.run_id() of the request
    varname,        \* <varname> of the URL
    time_seg,       \* <time_seg> of the URL, a string
    nreq,           \* requests the server has received so far
    parent_dir,     \* dataset_parent as returned by ensure_model_results
    model_created,  \* created, as returned by ensure_model_results
    img_created,    \* created, as returned by ensure_image_output
    todo,           \* segments save_from_dataset still has to look at
    resp,           \* status code of the response being sent, 0 when there is none
    raised,         \* the exception that left the handler, NoError when none did
    body,           \* the error page of the response, NoBody when it is none
    dsDir,          \* [RunIds -> BOOLEAN]: OUTPUT_FULL_PATH/<run_id> exists
    dsFile,         \* [RunIds -> BOOLEAN]: <run_id>.nc is completely written
    imgs,           \* image files on disk, <<run, var, seg>>
    partial,        \* the image files among them that are not completely written
    zipThere,       \* <<run, var>> whose archive_path + ".zip" is a file
    zipContent,     \* the image segments packed in that file
    img_fs_lock,    \* TRUE iff the lock is held
    runnerCalls,    \* history: [RunIds -> number of run_model() calls begun]
    firstPath,      \* history: [RunIds -> the first path ensure_model_results returned]
    trace,          \* history: per thread, the stages of the current request
    stat            \* the call of a function of data/statistics.py in progress

\* The variables of the web API, and all variables.
api == <<pc, kind, run, varname, time_seg, nreq, parent_dir, model_created,
         img_created, todo, resp, raised, body, dsDir, dsFile, imgs, partial,
         zipThere, zipContent, img_fs_lock, runnerCalls, firstPath, trace>>

vars == <<api, stat>>

local == <<kind, run, varname, time_seg, parent_dir, model_created, img_created, todo>>
store == <<dsDir, dsFile, imgs, partial, zipThere, zipContent>>
reply == <<resp, raised, body>>

\* ----------------------------------------------------------------- strings
Digits == <<"0", "1", "2", "3", "4", "5", "6", "7", "8", "9">>

IsDigit(c) == \E i \in 1..Len(Digits) : Digits[i] = c

DigitVal(c) == (CHOOSE i \in 1..Len(Digits) : Digits[i] = c) - 1

\* str(n) for a natural number n
RECURSIVE ToStr(_)
ToStr(n) == IF n < Len(Digits) THEN <<Digits[n + 1]>>
            ELSE ToStr(n \div Len(Digits)) \o <<Digits[(n % Len(Digits)) + 1]>>

\* int(s) succeeds iff s is a non-empty string of digits (else ValueError)
IsInt(s) == Len(s) > 0 /\ \A i \in 1..Len(s) : IsDigit(s[i])

RECURSIVE IntOf(_)
IntOf(s) == IF Len(s) = 0 THEN 0
            ELSE IntOf(SubSeq(s, 1, Len(s) - 1)) * Len(Digits) + DigitVal(s[Len(s)])

NoStr == <<>>

\* "_".join(parts)
RECURSIVE JoinUnderscore(_)
JoinUnderscore(parts) ==
    IF Len(parts) = 0 THEN <<>>
    ELSE IF Len(parts) = 1 THEN parts[1]
    ELSE parts[1] \o <<"_">> \o JoinUnderscore(Tail(parts))

\* ------------------------------------------------------------------ inputs
Kinds == {"dataset", "single", "multi"}
VarNames == {<<"temperature">>}
TimeSegInputs == {ToStr(n) : n \in Segs} \cup {<<"all">>}

\* ------------------------------------------------------------------- paths
OUTPUT_FULL_PATH == << <<"output">> >>

RunIdStr(r) == ToStr(r)

DatasetParent(r) == OUTPUT_FULL_PATH \o <<RunIdStr(r)>>

DatasetName(r) == RunIdStr(r) \o <<".nc">>

ScaleSuffix == <<"[", "lo", "x", "hi", "]">>

ScaleDirName(r) == JoinUnderscore(<<RunIdStr(r), ScaleSuffix>>)

ArchiveName(r, v) == JoinUnderscore(<<RunIdStr(r), v, ScaleSuffix>>)

ArchivePath(r, v) == DatasetParent(r) \o <<ScaleDirName(r), ArchiveName(r, v)>>

NoPath == <<>>


\* get_image_directory(ds_parent, run_id, var_name, colorbar, create)
ImageDirectory(r, v) == DatasetParent(r) \o <<ScaleDirName(r), v>>

\* image_file_name(base_name, config) + ".png", base_name = varname + "_" + str(seg)
ImageFileName(v, segstr) == JoinUnderscore(<<v \o <<"_">> \o segstr, ScaleSuffix>>) \o <<".png">>

AppendExt(p, ext) == [p EXCEPT ![Len(p)] = @ \o <<ext>>]

\* ------------------------------------------------------------------- store
Dirs == {DatasetParent(r) : r \in {x \in RunIds : dsDir[x]}}

Files ==
    {DatasetParent(r) \o <<DatasetName(r)>> : r \in {x \in RunIds : dsFile[x]}}
    \cup {AppendExt(ArchivePath(z[1], z[2]), ".zip") : z \in zipThere}
    \cup {ImageDirectory(i[1], i[2]) \o <<ImageFileName(i[2], ToStr(i[3]))>> : i \in imgs}

\* Path(p).exists()
Exists(p) == p \in Dirs \/ p \in Files

\* Path(p).is_file()
IsFile(p) == p \in Files

\* ---------------------------------------------------------------- responses
HTTP_OK == 200
HTTP_CREATED == 201
HTTP_BAD_REQUEST == 400
HTTP_NOT_FOUND == 404
HTTP_TOO_LARGE == 413
HTTP_SERVER_ERROR == 500

ENOSPC == 28
\* some errno other than 28, as of a missing file or a failed write
OtherErrno == ENOSPC + 1
Errnos == {ENOSPC, OtherErrno}

\* Exceptions: the class, the errno of an IOError, and str(err).
NoError == [type |-> "none", errno |-> 0, text |-> NoStr]

IOError(e) == [type |-> "IOError", errno |-> e, text |-> <<"Errno">> \o ToStr(e)]

ValueError(s) ==
    [type |-> "ValueError", errno |-> 0, text |-> <<"invalid literal for int()">> \o s]

InvalidConfigError(d) == [type |-> "InvalidConfigError", errno |-> 0, text |-> d]

\* What from_json_string may find wrong with a configuration.
ConfigFaults == {<<"co2">>, <<"year">>}

\* error_template(title, msg): the page, as its title and its body text
ErrorTemplate(title, msg) == <<title, msg>>

NoBody == <<>>

\* handle_invalid_config(err): the status code, and the page, which reports str(err)
HandleInvalidConfig == HTTP_BAD_REQUEST

HandleInvalidConfigPage(err) == ErrorTemplate("Invalid Configuration", err.text)

\* Faulty variant, used to show the property below is sensitive to it: errno 28 is answered like every other IOError.
HandleEnomemOneCase(errno) == HTTP_SERVER_ERROR

\* handle_enomem(err): the status code, and the page
HandleEnomem(errno) == IF errno = ENOSPC THEN HTTP_TOO_LARGE ELSE HTTP_SERVER_ERROR

HandleEnomemPage(errno) ==
    IF errno = ENOSPC
    THEN ErrorTemplate("Insufficient Space", <<"insufficient disk space">>)
    ELSE ErrorTemplate("Failed Disk IO", <<"failed to perform disk IO">>)

\* handle_failure(err): the status code, and the page, a fixed text
HandleFailure == HTTP_SERVER_ERROR

HandleFailurePage(err) == ErrorTemplate("Internal Error", <<"unexpected error">>)

\* The error handler flask picks for an exception: the one registered for its
\* class, and the handler of code 500 for an exception of any other class.
ErrorCode(exc) ==
    CASE exc.type = "InvalidConfigError" -> HandleInvalidConfig
      [] exc.type = "IOError" -> HandleEnomem(exc.errno)
      [] OTHER -> HandleFailure

ErrorPage(exc) ==
    CASE exc.type = "InvalidConfigError" -> HandleInvalidConfigPage(exc)
      [] exc.type = "IOError" -> HandleEnomemPage(exc.errno)
      [] OTHER -> HandleFailurePage(exc)

\* response_code = 201 if created else 200
ResponseCode(created) == IF created THEN HTTP_CREATED ELSE HTTP_OK

\* send_from_directory(directory, filename), code: 404 when there is no such file
SendFromDirectory(directory, filename, code) ==
    IF IsFile(directory \o <<filename>>) THEN code ELSE HTTP_NOT_FOUND

\* ------------------------------------------------------ data/statistics.py
\* A call of a function of data/statistics.py: the function, the arguments it
\* was given (history), the arguments as they are now, whether it has ended,
\* the exception it raised and the value it returned.  NoCall: no call is in
\* progress.
NoCall ==
    [fn |-> "none", given |-> <<>>, args |-> <<>>, ended |-> FALSE, raised |-> "none",
     value |-> <<>>]

\* The call ends by raising exception e, or by returning value v.
Raises(e) == [raised |-> e, value |-> <<>>]

Returns(v) == [raised |-> "none", value |-> v]

\* Numbers, nan, None and numpy arrays of them (np.ndarray, nested for the
\* higher dimensions).
MaxNum == 1          \* numbers in a table are -MaxNum..MaxNum
MaxElems == 3        \* longest one-dimensional array
MaxDim == 2          \* most rows and most columns of a two-dimensional array

Num(n) == [tag |-> "num", val |-> n, items |-> <<>>]

NaN == [tag |-> "nan", val |-> 0, items |-> <<>>]

None == [tag |-> "None", val |-> 0, items |-> <<>>]

Ndarray(items) == [tag |-> "ndarray", val |-> 0, items |-> items]

Elements == {Num(n) : n \in (0 - MaxNum)..MaxNum} \cup {NaN, None}

NumTables ==
    {Ndarray(row) : row \in UNION {[1..n -> Elements] : n \in 0..MaxElems}}
    \cup {Ndarray([i \in 1..Len(rows) |-> Ndarray(rows[i])]) :
            rows \in UNION {[1..r -> [1..c -> Elements]] : r \in 1..MaxDim, c \in 1..MaxDim}}

\* modifier: lambda x: x (the default) and lambda x: x ** 2
Modifiers == {"identity", "square"}

ApplyModifier(m, x) == IF m = "square" THEN x * x ELSE x

\* math.isnan(x): a TypeError for None
IsNan(x) == IF x.tag = "None" THEN Raises("TypeError") ELSE Returns(x.tag = "nan")

\* sum_table(table, modifier); SumTableLoop is its for loop over the
\* subarrays, with (total, num_valid_elems) so far.
RECURSIVE SumTable(_, _), SumTableLoop(_, _, _)
SumTable(table, modifier) ==
    IF table.tag = "ndarray"
    THEN SumTableLoop(table.items, modifier, <<0, 0>>)
    ELSE LET nan == IsNan(table)
         IN IF nan.raised # "none" THEN nan
            ELSE IF ~nan.value /\ table.tag # "None"
            THEN Returns(<<ApplyModifier(modifier, table.val), 1>>)
            ELSE Returns(<<0, 0>>)

SumTableLoop(subarrays, modifier, acc) ==
    IF subarrays = <<>> THEN Returns(acc)
    ELSE LET sub == SumTable(Head(subarrays), modifier)
         IN IF sub.raised # "none" THEN sub
            ELSE SumTableLoop(Tail(subarrays), modifier,
                              <<acc[1] + sub.value[1], acc[2] + sub.value[2]>>)

\* Floats: a number is kept as the fraction num / den, the root of a number
\* as the number under the root; nan.
Float(num, den) == [kind |-> "num", num |-> num, den |-> den]

FloatNaN == [kind |-> "nan", num |-> 0, den |-> 1]

\* a / b of two integers: ZeroDivisionError for b = 0
Divide(a, b) == IF b = 0 THEN Raises("ZeroDivisionError") ELSE Returns(Float(a, b))

\* math.sqrt(x) for x >= 0 or nan
Sqrt(x) == IF x.kind = "nan" THEN x ELSE [x EXCEPT !.kind = "sqrt"]

\* sum_cells / num_valid_cells inside try ... except ZeroDivisionError: return nan
DivideOrNaN(sums) ==
    IF sums.raised # "none" THEN sums
    ELSE LET q == Divide(sums.value[1], sums.value[2])
         IN IF q.raised = "ZeroDivisionError" THEN Returns(FloatNaN) ELSE q

\* mean(data)
Mean(data) == DivideOrNaN(SumTable(data, "identity"))

\* variance(data)
Variance(data) == DivideOrNaN(SumTable(data, "square"))

\* std_dev(data)
StdDev(data) ==
    LET v == Variance(data)
    IN IF v.raised # "none" THEN v ELSE Returns(Sqrt(v.value))

\* Strings of statistics.py are sequences of characters.
MaxTableLen == 2     \* most rows of a table of strings

MergeSepWidth == 12

Spaces(n) == [i \in 1..n |-> " "]

\* sep.join(parts)
RECURSIVE Join(_, _)
Join(sep, parts) ==
    IF parts = <<>> THEN <<>>
    ELSE IF Len(parts) = 1 THEN parts[1]
    ELSE parts[1] \o sep \o Join(sep, Tail(parts))

\* Rows of a table of strings, tables of strings, separators (the default one
\* among them).
StrRows == {<<>>, <<"a">>, <<"b", "c">>}

StrTables == UNION {[1..n -> StrRows] : n \in 0..MaxTableLen}

Separators == {Spaces(MergeSepWidth), <<"#">>}

\* Faulty variant, used to show the property below is sensitive to it: the rows are joined without the separator.
MergedRowNoSep(table1, table2, sep, i) == table1[i] \o table2[i]

\* sep.join([table1[i], table2[i]])
MergedRow(table1, table2, sep, i) == Join(sep, <<table1[i], table2[i]>>)

\* merge_str_tables(table1, table2, sep): table3 is a new list, the tables
\* given are only read.
MergeStrTables(table1, table2, sep) ==
    IF Len(table1) # Len(table2)
    THEN Raises("IndexError")
    ELSE Returns([i \in 1..Len(table1) |-> MergedRow(table1, table2, sep, i)])

\* Tables of numbers for convert_table_to_strs: in row i, cell j is the row's
\* first value plus j - 1.  MaxCols lets a heading be longer than a cell.
MaxRows == 2         \* most rows (latitude bands) of a table
MaxCols == 10        \* most columns (time divisions) of a table
MaxCell == 2         \* largest first value of a row

GridTables ==
    {[i \in 1..Len(first) |-> [j \in 1..n |-> first[i] + j - 1]] :
        first \in UNION {[1..r -> 0..MaxCell] : r \in 1..MaxRows}, n \in 1..MaxCols}

BaseCellLength == 10

ColumnDivider == <<" ", "|", " ">>

DivisionWord == <<"D", "i", "v", "i", "s", "i", "o", "n", " ">>

\* s.ljust(length, " ")
Ljust(s, length) == IF Len(s) < length THEN s \o Spaces(length - Len(s)) ELSE s

\* A cell of _format_row: cut to length characters, or padded to them.
FormatCell(s, length) ==
    IF Len(s) > length THEN SubSeq(s, 1, length)
    ELSE IF Len(s) < length THEN Ljust(s, length)
    ELSE s

\* _format_row(cell_values, length), for cell_values that are strings
FormatRow(cells, length) ==
    Join(ColumnDivider, [i \in 1..Len(cells) |-> FormatCell(cells[i], length)])

\* _format_row(row, length) for a row of numbers: str(row[i]) first
FormatNumberRow(row, length) == FormatRow([i \in 1..Len(row) |-> ToStr(row[i])], length)

\* int(floor(log10(n))) for n >= 1
RECURSIVE Log10Floor(_)
Log10Floor(n) == IF n < Len(Digits) THEN 0 ELSE 1 + Log10Floor(n \div Len(Digits))

\* "Division {}".format(i) for i in range(1, n + 1)
Headings(n) == [i \in 1..n |-> DivisionWord \o ToStr(i)]

\* list.reverse()
Reverse(list) == [i \in 1..Len(list) |-> list[Len(list) + 1 - i]]

\* convert_table_to_strs(table); table[0] of an empty table is an IndexError
ConvertTableToStrs(table) ==
    IF table = <<>> THEN Raises("IndexError")
    ELSE LET headings == Headings(Len(table[1]))
             cell_length == Log10Floor(Len(table)) + BaseCellLength
             rows == [i \in 1..Len(table) |-> FormatNumberRow(table[i], cell_length)]
             divider == FormatRow([i \in 1..Len(table[1]) |->
                                      [k \in 1..cell_length |-> "-"]], cell_length)
         IN Returns(Reverse(rows \o <<divider>> \o <<FormatRow(headings, cell_length)>>))

\* A function of data/statistics.py is called with arguments args.
CallStat(fn, args) ==
    /\ stat = NoCall
    /\ stat' = [fn |-> fn, given |-> args, args |-> args, ended |-> FALSE,
                raised |-> "none", value |-> <<>>]
    /\ UNCHANGED api

\* The call ends with outcome r, its arguments being args by then.
EndStat(args, r) ==
    /\ ~stat.ended
    /\ stat' = [stat EXCEPT !.args = args, !.ended = TRUE, !.raised = r.raised,
                            !.value = r.value]
    /\ UNCHANGED api

\* The caller has taken the outcome.
StatDone ==
    /\ stat.ended
    /\ stat' = NoCall
    /\ UNCHANGED api

SumTableCall == \E table \in NumTables, m \in Modifiers : CallStat("sum_table", <<table, m>>)

SumTableReturn ==
    /\ stat.fn = "sum_table"
    /\ EndStat(stat.args, SumTable(stat.args[1], stat.args[2]))

\* -------------------------------------------------------------------- Init
Init ==
    /\ pc = [t \in Threads |-> "idle"]
    /\ kind = [t \in Threads |-> "none"]
    /\ run = [t \in Threads |-> 0]
    /\ varname = [t \in Threads |-> NoStr]
    /\ time_seg = [t \in Threads |-> NoStr]
    /\ nreq = 0
    /\ parent_dir = [t \in Threads |-> NoPath]
    /\ model_created = [t \in Threads |-> FALSE]
    /\ img_created = [t \in Threads |-> FALSE]
    /\ todo = [t \in Threads |-> {}]
    /\ resp = [t \in Threads |-> 0]
    /\ raised = [t \in Threads |-> NoError]
    /\ body = [t \in Threads |-> NoBody]
    /\ dsDir = [r \in RunIds |-> FALSE]
    /\ dsFile = [r \in RunIds |-> FALSE]
    /\ imgs = {}
    /\ partial = {}
    /\ zipThere = {}
    /\ zipContent = [z \in RunIds \X VarNames |-> {}]
    /\ img_fs_lock = FALSE
    /\ runnerCalls = [r \in RunIds |-> 0]
    /\ firstPath = [r \in RunIds |-> NoPath]
    /\ trace = [t \in Threads |-> <<>>]
    /\ stat = NoCall

\* ----------------------------------------------------- end of a request
\* The handler returns its response, or an error handler does, with status
\* code `code`.
Finish(t, code) ==
    /\ pc' = [pc EXCEPT ![t] = "done"]
    /\ resp' = [resp EXCEPT ![t] = code]
    /\ UNCHANGED <<local, trace, raised, body>>

\* Exception exc leaves the handler of thread t; the error handler registered
\* for it makes the response.
Fail(t, exc) ==
    /\ pc' = [pc EXCEPT ![t] = "done"]
    /\ resp' = [resp EXCEPT ![t] = ErrorCode(exc)]
    /\ raised' = [raised EXCEPT ![t] = exc]
    /\ body' = [body EXCEPT ![t] = ErrorPage(exc)]
    /\ UNCHANGED <<local, trace>>

\* Faulty variant, used to show the property below is sensitive to it: the output tree of the run id is removed when an exception leaves the handler.
RaiseAndCleanUp(t, exc) ==
    /\ Fail(t, exc)
    /\ dsDir' = [dsDir EXCEPT ![run[t]] = FALSE]
    /\ dsFile' = [dsFile EXCEPT ![run[t]] = FALSE]
    /\ imgs' = {i \in imgs : i[1] # run[t]}
    /\ partial' = {i \in partial : i[1] # run[t]}
    /\ zipThere' = {z \in zipThere : z[1] # run[t]}
    /\ zipContent' = [z \in RunIds \X VarNames |->
                        IF z[1] = run[t] THEN {} ELSE zipContent[z]]
    /\ UNCHANGED <<nreq, stat, img_fs_lock, runnerCalls, firstPath>>

\* An exception leaves the handler: nothing between the raise and the error
\* handler releases img_fs_lock or touches the store.
Raise(t, exc) ==
    /\ Fail(t, exc)
    /\ UNCHANGED <<nreq, stat, store, img_fs_lock, runnerCalls, firstPath>>

\* The response is sent and the thread is free for the next request.
Return(t) ==
    /\ pc[t] = "done"
    /\ pc' = [pc EXCEPT ![t] = "idle"]
    /\ resp' = [resp EXCEPT ![t] = 0]
    /\ raised' = [raised EXCEPT ![t] = NoError]
    /\ body' = [body EXCEPT ![t] = NoBody]
    /\ kind' = [kind EXCEPT ![t] = "none"]
    /\ run' = [run EXCEPT ![t] = 0]
    /\ varname' = [varname EXCEPT ![t] = NoStr]
    /\ time_seg' = [time_seg EXCEPT ![t] = NoStr]
    /\ parent_dir' = [parent_dir EXCEPT ![t] = NoPath]
    /\ model_created' = [model_created EXCEPT ![t] = FALSE]
    /\ img_created' = [img_created EXCEPT ![t] = FALSE]
    /\ todo' = [todo EXCEPT ![t] = {}]
    /\ trace' = [trace EXCEPT ![t] = <<>>]
    /\ UNCHANGED <<nreq, stat, store, img_fs_lock, runnerCalls, firstPath>>

\* ------------------------------------------------- ensure_model_results
\* The handler's next position once ensure_model_results has returned.
AfterEnsure(k) ==
    CASE k = "dataset" -> "send_ds"
      [] k = "single" -> "acquire"
      [] k = "multi" -> "zip_check"

\* Faulty variant, used to show the property below is sensitive to it: the test asks Path(dataset_parent).is_file() of the directory.
DatasetCachedIsFile(r) == IsFile(DatasetParent(r))

\* Faulty variant, used to show the property below is sensitive to it: a run id that was computed once counts as cached whatever the store holds.
DatasetCachedOrRemembered(r) == Exists(DatasetParent(r)) \/ firstPath[r] # NoPath

\* not Path(dataset_parent).exists() is the cache-miss test
DatasetCached(r) == Exists(DatasetParent(r))

\* Faulty variant, used to show the property below is sensitive to it: after a model run the output root is returned, without the run id.
EnsureReturnRootOnMiss(t, k, r, created) ==
    /\ parent_dir' = [parent_dir EXCEPT ![t] =
                        IF created THEN OUTPUT_FULL_PATH ELSE DatasetParent(r)]
    /\ model_created' = [model_created EXCEPT ![t] = created]
    /\ pc' = [pc EXCEPT ![t] = AfterEnsure(k)]
    /\ firstPath' = [firstPath EXCEPT ![r] = IF @ = NoPath THEN DatasetParent(r) ELSE @]
    /\ trace' = [trace EXCEPT ![t] = Append(@, "ds_ret")]

\* return dataset_parent, created: thread t, serving endpoint k for run r
EnsureReturn(t, k, r, created) ==
    /\ parent_dir' = [parent_dir EXCEPT ![t] = DatasetParent(r)]
    /\ model_created' = [model_created EXCEPT ![t] = created]
    /\ pc' = [pc EXCEPT ![t] = AfterEnsure(k)]
    /\ firstPath' = [firstPath EXCEPT ![r] = IF @ = NoPath THEN DatasetParent(r) ELSE @]
    /\ trace' = [trace EXCEPT ![t] = Append(@, "ds_ret")]

\* A request arrives at thread t; the handler decodes the configuration and
\* calls ensure_model_results, whose existence test either returns at once
\* (a hit) or calls run.run_model() (a miss).
Begin(t, k, r, v, s) ==
    /\ pc[t] = "idle"
    /\ \A u \in Threads : u < t => pc[u] # "idle"     \* the first free thread takes it
    /\ nreq < MaxRequests
    /\ nreq' = nreq + 1
    /\ kind' = [kind EXCEPT ![t] = k]
    /\ run' = [run EXCEPT ![t] = r]
    /\ varname' = [varname EXCEPT ![t] = v]
    /\ time_seg' = [time_seg EXCEPT ![t] = s]
    /\ IF DatasetCached(r)
       THEN /\ EnsureReturn(t, k, r, FALSE)
            /\ UNCHANGED runnerCalls
       ELSE /\ pc' = [pc EXCEPT ![t] = "run_model"]
            /\ runnerCalls' = [runnerCalls EXCEPT ![r] = @ + 1]
            /\ UNCHANGED <<parent_dir, model_created, firstPath, trace>>
    /\ UNCHANGED <<img_created, todo, reply, store, img_fs_lock, stat>>

\* POST /model/dataset
ScientificDataset(t) == \E r \in RunIds : Begin(t, "dataset", r, NoStr, NoStr)

\* POST /model/<varname>/<time_seg>
SingleModelData(t) ==
    \E r \in RunIds, v \in VarNames, s \in TimeSegInputs : Begin(t, "single", r, v, s)

\* POST /model/<varname>
MultiModelData(t) == \E r \in RunIds, v \in VarNames : Begin(t, "multi", r, v, NoStr)

\* A request whose configuration from_json_string rejects: InvalidConfigError
\* leaves the handler before ensure_model_results is called.
InvalidRequest(t) ==
    /\ pc[t] = "idle"
    /\ \A u \in Threads : u < t => pc[u] # "idle"
    /\ nreq < MaxRequests
    /\ nreq' = nreq + 1
    /\ \E k \in Kinds, d \in ConfigFaults :
          /\ kind' = [kind EXCEPT ![t] = k]
          /\ pc' = [pc EXCEPT ![t] = "done"]
          /\ resp' = [resp EXCEPT ![t] = ErrorCode(InvalidConfigError(d))]
          /\ raised' = [raised EXCEPT ![t] = InvalidConfigError(d)]
          /\ body' = [body EXCEPT ![t] = ErrorPage(InvalidConfigError(d))]
    /\ UNCHANGED <<run, varname, time_seg, parent_dir, model_created, img_created,
                   todo, store, img_fs_lock, runnerCalls, firstPath, trace, stat>>

\* ModelRun.run_model(), first half: the output directory of the run is made.
RunModelMkdir(t) ==
    /\ pc[t] = "run_model"
    /\ dsDir' = [dsDir EXCEPT ![run[t]] = TRUE]
    /\ pc' = [pc EXCEPT ![t] = "run_write"]
    /\ UNCHANGED <<local, nreq, stat, reply, dsFile, imgs, partial, zipThere, zipContent,
                   img_fs_lock, runnerCalls, firstPath, trace>>

\* ModelRun.run_model(), second half: the dataset is written and the call
\* returns; created = True.  Writing into a directory that was deleted
\* meanwhile is an IOError.
RunModelWrite(t) ==
    /\ pc[t] = "run_write"
    /\ IF dsDir[run[t]]
       THEN /\ dsFile' = [dsFile EXCEPT ![run[t]] = TRUE]
            /\ EnsureReturn(t, kind[t], run[t], TRUE)
            /\ UNCHANGED <<kind, run, varname, time_seg, img_created, todo, reply>>
       ELSE /\ Fail(t, IOError(OtherErrno))
            /\ UNCHANGED <<dsFile, firstPath>>
    /\ UNCHANGED <<nreq, stat, dsDir, imgs, partial, zipThere, zipContent, img_fs_lock,
                   runnerCalls>>

\* ModelRun.run_model() fails with an IOError, before or after it made the
\* directory; the error leaves ensure_model_results and the handler.
RunModelFail(t) ==
    /\ pc[t] \in {"run_model", "run_write"}
    /\ \E e \in Errnos : Raise(t, IOError(e))

\* ---------------------------------------------------- scientific_dataset
\* return send_from_directory(dataset_parent, dataset_name), response_code
SendDataset(t) ==
    /\ pc[t] = "send_ds"
    /\ Finish(t, SendFromDirectory(parent_dir[t], DatasetName(run[t]),
                                   ResponseCode(model_created[t])))
    /\ UNCHANGED <<nreq, stat, store, img_fs_lock, runnerCalls, firstPath>>

\* --------------------------------------------------- ensure_image_output
Min(S) == CHOOSE x \in S : \A y \in S : x <= y

\* The segments save_from_dataset is asked for: one, or all when time_seg is None.
Requested(t) == IF kind[t] = "single" THEN {IntOf(time_seg[t])} ELSE Segs

\* The handler's next position once ensure_image_output has returned.
AfterImages(k) == IF k = "single" THEN "release" ELSE "archive"

\* save_from_dataset(ds_parent, var_name, time_seg, config) opens the dataset
\* under ds_parent: without one it fails, with one it goes through the
\* requested segments.
SaveFromDataset(t) ==
    IF dsFile[run[t]]
    THEN /\ todo' = [todo EXCEPT ![t] = Requested(t)]
         /\ img_created' = [img_created EXCEPT ![t] = FALSE]
         /\ pc' = [pc EXCEPT ![t] = "render"]
         /\ trace' = [trace EXCEPT ![t] = Append(@, "render_call")]
         /\ UNCHANGED <<kind, run, varname, time_seg, parent_dir, model_created, reply>>
    ELSE Fail(t, IOError(OtherErrno))

\* Faulty variant, used to show the property below is sensitive to it: ensure_image_output runs the model itself when the dataset is missing.
EnsureImageOutputRunsModel(t) ==
    /\ dsDir' = [dsDir EXCEPT ![run[t]] = TRUE]
    /\ dsFile' = [dsFile EXCEPT ![run[t]] = TRUE]
    /\ runnerCalls' = [runnerCalls EXCEPT ![run[t]] = IF dsFile[run[t]] THEN @ ELSE @ + 1]
    /\ todo' = [todo EXCEPT ![t] = Requested(t)]
    /\ img_created' = [img_created EXCEPT ![t] = FALSE]
    /\ pc' = [pc EXCEPT ![t] = "render"]
    /\ trace' = [trace EXCEPT ![t] = Append(@, "render_call")]
    /\ UNCHANGED <<kind, run, varname, time_seg, parent_dir, model_created, reply, nreq, stat,
                   imgs, partial, zipThere, zipContent, img_fs_lock, firstPath>>

\* ensure_image_output(ds_parent, var_name, time_seg, config), up to the call
\* of save_from_dataset: it touches neither the store nor the model runner.
EnsureImageOutput(t) ==
    /\ SaveFromDataset(t)
    /\ UNCHANGED <<nreq, stat, store, img_fs_lock, runnerCalls, firstPath>>

\* The call of ensure_image_output in a handler; single_model_data evaluates
\* int(time_seg) for it first, a ValueError when time_seg is no number.
CallEnsureImageOutput(t) ==
    /\ pc[t] = "img_output"
    /\ IF kind[t] = "single" /\ ~IsInt(time_seg[t])
       THEN Raise(t, ValueError(time_seg[t]))
       ELSE EnsureImageOutput(t)

\* Faulty variant, used to show the property below is sensitive to it: save_from_dataset renders every segment it is asked for.
ImagePresentNever(i) == FALSE

\* save_from_dataset's test for the image file of <<run, var, seg>>
ImagePresent(i) == i \in imgs

\* save_from_dataset looks at the next segment: an image file that is there is
\* left alone, a missing one is opened for writing.  After the last segment
\* ensure_image_output returns (img_parent, created).
RenderStep(t) ==
    /\ pc[t] = "render"
    /\ LET s == Min(todo[t])
           i == <<run[t], varname[t], s>>
       IN IF ~dsDir[run[t]]
          THEN /\ Fail(t, IOError(OtherErrno))
               /\ UNCHANGED <<imgs, partial>>
          ELSE IF ImagePresent(i)
          THEN /\ todo' = [todo EXCEPT ![t] = @ \ {s}]
               /\ IF todo[t] = {s}
                  THEN /\ pc' = [pc EXCEPT ![t] = AfterImages(kind[t])]
                       /\ trace' = [trace EXCEPT ![t] = Append(@, "render_ret")]
                  ELSE UNCHANGED <<pc, trace>>
               /\ UNCHANGED <<kind, run, varname, time_seg, parent_dir, model_created,
                              img_created, reply, imgs, partial>>
          ELSE /\ imgs' = imgs \cup {i}
               /\ partial' = partial \cup {i}
               /\ pc' = [pc EXCEPT ![t] = "render_write"]
               /\ UNCHANGED <<local, reply, trace>>
    /\ UNCHANGED <<nreq, stat, dsDir, dsFile, zipThere, zipContent, img_fs_lock,
                   runnerCalls, firstPath>>

\* save_from_dataset finishes writing the image file it opened.
RenderWrite(t) ==
    /\ pc[t] = "render_write"
    /\ LET s == Min(todo[t])
           i == <<run[t], varname[t], s>>
       IN /\ partial' = partial \ {i}
          /\ img_created' = [img_created EXCEPT ![t] = TRUE]
          /\ todo' = [todo EXCEPT ![t] = @ \ {s}]
          /\ IF todo[t] = {s}
             THEN /\ pc' = [pc EXCEPT ![t] = AfterImages(kind[t])]
                  /\ trace' = [trace EXCEPT ![t] = Append(@, "render_ret")]
             ELSE /\ pc' = [pc EXCEPT ![t] = "render"]
                  /\ UNCHANGED trace
    /\ UNCHANGED <<kind, run, varname, time_seg, parent_dir, model_created, reply,
                   nreq, stat, dsDir, dsFile, imgs, zipThere, zipContent, img_fs_lock,
                   runnerCalls, firstPath>>

\* save_from_dataset fails with an IOError, before or while writing an image
\* file; a file it was writing stays as it is.
RenderFail(t) ==
    /\ pc[t] \in {"render", "render_write"}
    /\ \E e \in Errnos : Raise(t, IOError(e))

\* ----------------------------------------------------- single_model_data
\* Faulty variant, used to show the property below is sensitive to it: acquire() returns at once, whether the lock is held or not.
AcquireWithoutWaiting(t) ==
    /\ pc[t] = "acquire"
    /\ img_fs_lock' = TRUE
    /\ pc' = [pc EXCEPT ![t] = "img_output"]
    /\ UNCHANGED <<local, nreq, stat, reply, store, runnerCalls, firstPath, trace>>

\* img_fs_lock.acquire()
Acquire(t) ==
    /\ pc[t] = "acquire"
    /\ ~img_fs_lock
    /\ img_fs_lock' = TRUE
    /\ pc' = [pc EXCEPT ![t] = "img_output"]
    /\ UNCHANGED <<local, nreq, stat, reply, store, runnerCalls, firstPath, trace>>

\* img_fs_lock.release()
Release(t) ==
    /\ pc[t] = "release"
    /\ img_fs_lock' = FALSE
    /\ pc' = [pc EXCEPT ![t] = "send_img"]
    /\ UNCHANGED <<local, nreq, stat, reply, store, runnerCalls, firstPath, trace>>

\* return send_from_directory(download_path, file_name), response_code
SendImage(t) ==
    /\ pc[t] = "send_img"
    /\ Finish(t, SendFromDirectory(ImageDirectory(run[t], varname[t]),
                                   ImageFileName(varname[t], time_seg[t]),
                                   ResponseCode(model_created[t] \/ img_created[t])))
    /\ UNCHANGED <<nreq, stat, store, img_fs_lock, runnerCalls, firstPath>>

\* ------------------------------------------------------ multi_model_data
\* Faulty variant, used to show the property below is sensitive to it: the test looks for the archive directly under the dataset directory.
ArchiveCachedUnderParent(r, v) ==
    IsFile(DatasetParent(r) \o <<ArchiveName(r, v) \o <<".zip">>>>)

\* if not Path(archive_path + ".zip").is_file()
ArchiveCached(r, v) == IsFile(AppendExt(ArchivePath(r, v), ".zip"))

\* Faulty variant, used to show the property below is sensitive to it: on a missing archive the handler goes straight to make_archive.
AfterZipMissArchive == "archive"

\* The handler's next position when the archive is missing.
AfterZipMiss == "img_output"

ZipCheck(t) ==
    /\ pc[t] = "zip_check"
    /\ pc' = [pc EXCEPT ![t] = IF ArchiveCached(run[t], varname[t])
                               THEN "send_zip" ELSE AfterZipMiss]
    /\ UNCHANGED <<local, nreq, stat, reply, store, img_fs_lock, runnerCalls, firstPath,
                   trace>>

\* shutil.make_archive(archive_path, 'zip', archive_src) packs what the image
\* directory holds at this moment; a directory that is gone is an IOError.
\* zipContent records the segments whose complete image went in: a file that
\* is still being written goes in as far as it is written.
MakeArchive(t) ==
    /\ pc[t] = "archive"
    /\ LET z == <<run[t], varname[t]>>
       IN IF dsDir[run[t]]
          THEN /\ zipThere' = zipThere \cup {z}
               /\ zipContent' = [zipContent EXCEPT ![z] =
                                   {s \in Segs : <<z[1], z[2], s>> \in imgs \ partial}]
               /\ pc' = [pc EXCEPT ![t] = "send_zip"]
               /\ trace' = [trace EXCEPT ![t] = Append(@, "archive_call")]
               /\ UNCHANGED <<local, reply>>
          ELSE /\ Fail(t, IOError(OtherErrno))
               /\ UNCHANGED <<zipThere, zipContent>>
    /\ UNCHANGED <<nreq, stat, dsDir, dsFile, imgs, partial, img_fs_lock, runnerCalls,
                   firstPath>>

\* shutil.make_archive fails with an IOError.
ArchiveFail(t) ==
    /\ pc[t] = "archive"
    /\ \E e \in Errnos : Raise(t, IOError(e))

\* return send_from_directory(ds_parent, archive_name + ".zip"), response_code
SendArchive(t) ==
    /\ pc[t] = "send_zip"
    /\ Finish(t, SendFromDirectory(parent_dir[t],
                                   ArchiveName(run[t], varname[t]) \o <<".zip">>,
                                   ResponseCode(model_created[t] \/ img_created[t])))
    /\ UNCHANGED <<nreq, stat, store, img_fs_lock, runnerCalls, firstPath>>

\* ------------------------------------------------------------ environment
\* The output tree of run r is deleted from outside the server.
ExternalClear(r) ==
    /\ dsDir[r]
    /\ dsDir' = [dsDir EXCEPT ![r] = FALSE]
    /\ dsFile' = [dsFile EXCEPT ![r] = FALSE]
    /\ imgs' = {i \in imgs : i[1] # r}
    /\ partial' = {i \in partial : i[1] # r}
    /\ zipThere' = {z \in zipThere : z[1] # r}
    /\ zipContent' = [z \in RunIds \X VarNames |-> IF z[1] = r THEN {} ELSE zipContent[z]]
    /\ UNCHANGED <<pc, local, nreq, stat, reply, img_fs_lock, runnerCalls, firstPath, trace>>

\* ---------------------------------------------------------- specifications
\* A handler's steps when no producer fails.
Handler(t) ==
    \/ RunModelMkdir(t) \/ RunModelWrite(t) \/ SendDataset(t)
    \/ Acquire(t) \/ CallEnsureImageOutput(t) \/ RenderStep(t) \/ RenderWrite(t)
    \/ Release(t)
    \/ SendImage(t) \/ ZipCheck(t) \/ MakeArchive(t) \/ SendArchive(t)
    \/ Return(t)

Arrive(t) == ScientificDataset(t) \/ SingleModelData(t) \/ MultiModelData(t)

Failure(t) == RunModelFail(t) \/ RenderFail(t) \/ ArchiveFail(t)

NoneInFlight == \A t \in Threads : pc[t] = "idle"

Next ==
    \/ \E t \in Threads : Arrive(t) \/ InvalidRequest(t) \/ Handler(t) \/ Failure(t)
    \/ \E r \in RunIds : ExternalClear(r)

\* Concurrent requests, failing producers, outside deletions.
Spec == Init /\ [][Next]_vars

\* Requests one after another: a request arrives only when none is being
\* handled.  No producer fails and nothing is deleted from outside.
SeqNext == \E t \in Threads : (NoneInFlight /\ Arrive(t)) \/ Handler(t)

SeqSpec == Init /\ [][SeqNext]_vars

\* Requests one after another, with failing producers and outside deletions.
SeqEnvNext ==
    \/ \E t \in Threads : (NoneInFlight /\ Arrive(t)) \/ Handler(t) \/ Failure(t)
    \/ \E r \in RunIds : ExternalClear(r)

SeqEnvSpec == Init /\ [][SeqEnvNext]_vars

\* Requests one after another, among them requests with an invalid
\* configuration, with failing producers and outside deletions.
ErrNext ==
    \/ SeqEnvNext
    \/ \E t \in Threads : NoneInFlight /\ InvalidRequest(t)

ErrSpec == Init /\ [][ErrNext]_vars

\* Concurrent calls of ensure_model_results through POST /model/dataset, with a
\* model run that always succeeds and nothing deleted from outside.  Every
\* thread that is handling a request keeps running (weak fairness of its steps);
\* nothing forces a request to arrive.
DatasetStep(t) == RunModelMkdir(t) \/ RunModelWrite(t) \/ SendDataset(t) \/ Return(t)

EnsureNext == \E t \in Threads : ScientificDataset(t) \/ DatasetStep(t)

EnsureSpec == Init /\ [][EnsureNext]_vars /\ \A t \in Threads : WF_vars(DatasetStep(t))

\* Concurrent single-image requests whose producers may fail.  Every thread
\* that is handling a request keeps running, a producer it called returns
\* unless it fails, and a thread that waits for img_fs_lock gets it if the
\* lock is free again and again (strong fairness of the acquisition).
SingleStep(t) ==
    \/ RunModelMkdir(t) \/ RunModelWrite(t) \/ Acquire(t) \/ CallEnsureImageOutput(t)
    \/ RenderStep(t) \/ RenderWrite(t) \/ Release(t) \/ SendImage(t) \/ Return(t)

LockNext ==
    \E t \in Threads :
        SingleModelData(t) \/ SingleStep(t) \/ RunModelFail(t) \/ RenderFail(t)

LockSpec ==
    /\ Init /\ [][LockNext]_vars
    /\ \A t \in Threads : WF_vars(SingleStep(t)) /\ SF_vars(Acquire(t))

\* Concurrent requests of all three kinds; no producer fails and nothing is
\* deleted from outside.
ConcNext == \E t \in Threads : Arrive(t) \/ Handler(t)

ConcSpec == Init /\ [][ConcNext]_vars

\* ------------------------------------------------------------- vocabulary
\* ModelRun.run_model() is in progress in thread t.
InRunner(t) == pc[t] \in {"run_model", "run_write"}

\* ensure_model_results has returned to thread t in its current request.
EnsureReturned(t) == parent_dir[t] # NoPath

\* Thread t is inside ensure_image_output (the Renderer has been invoked).
InRenderer(t) == pc[t] \in {"render", "render_write"}

\* Thread t is between checking for and finishing the creation of an image or
\* an archive.
InImageSection(t) == pc[t] \in {"img_output", "render", "render_write", "archive"}

\* Thread t holds img_fs_lock as far as the code of single_model_data goes.
InGuardedSection(t) ==
    kind[t] = "single" /\ pc[t] \in {"img_output", "render", "render_write", "release"}

\* The step is one of thread t.
StepOf(t) == pc'[t] # pc[t] \/ todo'[t] # todo[t]

\* A request arrives at thread t in this step.
Arrives(t) == pc[t] = "idle" /\ pc'[t] # "idle"

Stages == <<"ds_ret", "render_call", "render_ret", "archive_call">>

IsPrefix(a, b) == Len(a) <= Len(b) /\ SubSeq(b, 1, Len(a)) = a

\* ------------------------------------------------------------------ claims
\* C1: two calls of ensure_model_results in sequence for one configuration,
\* with nothing deleted in between and a model run that writes the directory
\* before it returns: once a call for run id r has returned, the next call for
\* r starts no model run (run_model has been called exactly once for r),
\* reports created = False and returns the path the first call returned.
C1_CacheHitIdempotence ==
    [][\A t \in Threads : \A r \in RunIds :
          (Arrives(t) /\ run'[t] = r /\ firstPath[r] # NoPath)
          => /\ EnsureReturned(t)'
             /\ ~model_created'[t]
             /\ parent_dir'[t] = firstPath[r]
             /\ runnerCalls'[r] = 1]_vars

C1_Witness ==
    \E t \in Threads :
        /\ nreq >= 2
        /\ EnsureReturned(t) /\ ~model_created[t]
        /\ parent_dir[t] = firstPath[run[t]]
        /\ runnerCalls[run[t]] = 1

\* C2: under concurrent ensure_model_results calls for one configuration on a
\* store without its dataset, run_model is called exactly once in all.
C2_RunnerInvokedOnce == \A r \in RunIds : runnerCalls[r] <= 1

\* C3: two model runs for one run id are never in progress at the same time.
C3_OneRunPerRunId ==
    \A r \in RunIds : Cardinality({t \in Threads : InRunner(t) /\ run[t] = r}) <= 1

\* C4: with a model run that always succeeds and fair scheduling, every
\* concurrent ensure_model_results call returns, and the calls for one run id
\* all return the same path.
C4_AllReturnSamePath ==
    /\ \A t \in Threads : InRunner(t) ~> EnsureReturned(t)
    /\ [](\A t, u \in Threads :
            (EnsureReturned(t) /\ EnsureReturned(u) /\ run[t] = run[u])
            => parent_dir[t] = parent_dir[u])

C4_Witness ==
    \E t, u \in Threads :
        /\ t # u /\ run[t] = run[u]
        /\ EnsureReturned(t) /\ EnsureReturned(u)
        /\ model_created[t] /\ parent_dir[t] = parent_dir[u]

\* C5: a run id whose dataset is not completely written is never taken for a
\* cache hit: a request that finds the run id cached finds a complete dataset.
C5_NoPartialCacheHit ==
    [][\A t \in Threads :
          (Arrives(t) /\ EnsureReturned(t)') => dsFile[run'[t]]]_vars

\* C6: the Renderer is invoked for a run id only when that run id's dataset is
\* complete and no model run for it is in progress.
C6_RenderAfterDataset ==
    [][\A t \in Threads :
          (pc[t] = "img_output" /\ pc'[t] # "img_output"
             /\ (kind[t] = "single" => IsInt(time_seg[t])))
          => /\ dsFile[run[t]]
             /\ \A u \in Threads : ~(InRunner(u) /\ run[u] = run[t])]_vars

\* C7: at most one request at a time is between checking for and finishing the
\* creation of an image or archive of one run id.
C7_ImageTreeExclusive ==
    \A r \in RunIds :
        Cardinality({t \in Threads : InImageSection(t) /\ run[t] = r}) <= 1

\* C8: whenever no request is between acquiring img_fs_lock and releasing it,
\* the lock is free.
C8_LockReleasedOnEveryPath ==
    (\A t \in Threads : ~InGuardedSection(t)) => ~img_fs_lock

\* C9: ensure_image_output never calls run_model and never creates a dataset;
\* called for a run id without a dataset it fails (the handler ends in the
\* server-error response).
C9_ImageOutputNeverRunsModel ==
    [][\A t \in Threads :
          ((pc[t] = "img_output" \/ InRenderer(t)) /\ StepOf(t))
          => /\ runnerCalls' = runnerCalls
             /\ dsDir' = dsDir
             /\ dsFile' = dsFile
             /\ (pc[t] = "img_output" /\ ~dsFile[run[t]])
                => (pc'[t] = "done" /\ resp'[t] = HTTP_SERVER_ERROR)]_vars

C9_Witness ==
    \E t \in Threads :
        /\ pc[t] = "done" /\ resp[t] = HTTP_SERVER_ERROR
        /\ kind[t] \in {"single", "multi"}
        /\ kind[t] = "single" => IsInt(time_seg[t])
        /\ trace[t] = <<"ds_ret">>
        /\ ~dsFile[run[t]]
        /\ runnerCalls[run[t]] = 1

\* C10: within one request the stages come in order: ensure_model_results has
\* returned before the Renderer is invoked, and the Renderer has returned
\* before the Archiver is invoked.
C10_StagesOrdered ==
    \A t \in Threads :
        /\ IsPrefix(trace[t], Stages)
        /\ InRenderer(t) => trace[t] = SubSeq(Stages, 1, 2)
        /\ pc[t] = "archive" => trace[t] = SubSeq(Stages, 1, 3)
        /\ kind[t] # "multi" => Len(trace[t]) <= 3

C10_Witness == \E t \in Threads : pc[t] = "send_zip" /\ trace[t] = Stages

\* C11: when make_archive returns in an archive request, the archive file
\* exists and holds the complete image of every segment of the variable,
\* whatever concurrent image requests on the same run id and variable do.
C11_ArchiveComposition ==
    [][\A t \in Threads :
          (pc[t] = "archive" /\ pc'[t] = "send_zip")
          => /\ <<run[t], varname[t]>> \in zipThere'
             /\ zipContent'[<<run[t], varname[t]>>] = Segs]_vars

\* The file multi_model_data tests for and make_archive writes.
CheckedArchivePath(t) == AppendExt(ArchivePath(run[t], varname[t]), ".zip")

\* The file multi_model_data hands to send_from_directory.
ServedArchivePath(t) == parent_dir[t] \o <<ArchiveName(run[t], varname[t]) \o <<".zip">>>>

\* C12: an archive request serves the archive from the place where it tested
\* for the file and where make_archive wrote it.
C12_ServesCheckedArchive ==
    \A t \in Threads :
        (kind[t] = "multi" /\ pc[t] = "send_zip")
        => ServedArchivePath(t) = CheckedArchivePath(t)

\* C13: the store alone decides a cache hit: a call of ensure_model_results
\* that finds the directory of its run id absent, also one that was computed
\* before and deleted since, calls run_model again, and when that returns the
\* call reports created = True.
C13_PresenceIsCacheSignal ==
    [][\A t \in Threads :
          /\ (Arrives(t) /\ run'[t] \in RunIds /\ ~dsDir[run'[t]])
             => /\ pc'[t] = "run_model"
                /\ runnerCalls'[run'[t]] = runnerCalls[run'[t]] + 1
          /\ (InRunner(t) /\ EnsureReturned(t)') => model_created'[t]]_vars

C13_Witness ==
    \E t \in Threads :
        /\ pc[t] = "run_write"
        /\ firstPath[run[t]] # NoPath
        /\ runnerCalls[run[t]] = 2

\* Thread t is inside a producer: run_model, save_from_dataset or make_archive.
InProducer(t) == InRunner(t) \/ InRenderer(t) \/ pc[t] = "archive"

\* C14: a producer that fails ends the request in the error response: the
\* ensure step returns no (path, created) pair, nothing is retried (no
\* producer is called again for the request) and nothing is cleaned up (the
\* store stays as the producer left it).
C14_FailurePropagates ==
    [][\A t \in Threads :
          /\ (InProducer(t) /\ pc'[t] = "done")
             => /\ raised'[t].type = "IOError"
                /\ resp'[t] \in {HTTP_TOO_LARGE, HTTP_SERVER_ERROR}
                /\ trace'[t] = trace[t]
                /\ parent_dir'[t] = parent_dir[t]
                /\ model_created'[t] = model_created[t]
                /\ img_created'[t] = img_created[t]
                /\ store' = store
                /\ runnerCalls' = runnerCalls
          /\ (pc[t] = "done" /\ StepOf(t))
             => (pc'[t] = "idle" /\ store' = store /\ runnerCalls' = runnerCalls)]_vars

C14_Witness ==
    \E t \in Threads :
        /\ pc[t] = "done" /\ raised[t] = IOError(ENOSPC)
        /\ resp[t] = HTTP_TOO_LARGE
        /\ trace[t] = <<>> /\ ~EnsureReturned(t)
        /\ dsDir[run[t]] /\ ~dsFile[run[t]]
        /\ runnerCalls[run[t]] = 1

\* C15: a request that ends without an error is answered 201 when it produced
\* the dataset or an image itself, and 200 when all it needed was cached.
C15_StatusReflectsCreation ==
    \A t \in Threads :
        (pc[t] = "done" /\ raised[t] = NoError)
        => resp[t] = IF model_created[t] \/ img_created[t] THEN HTTP_CREATED ELSE HTTP_OK

\* C16: a request that ends in an exception is answered by the class of the
\* exception: 400 for an invalid configuration, 413 "Insufficient Space" for an
\* IOError with errno 28, 500 "Failed Disk IO" for every other IOError, and for
\* every other exception 500 "Internal Error" with a page that is the same
\* whatever the exception was.
C16_ErrorsClassified ==
    \A t \in Threads :
        (pc[t] = "done" /\ raised[t] # NoError)
        => CASE raised[t].type = "InvalidConfigError" ->
                  /\ resp[t] = HTTP_BAD_REQUEST
                  /\ body[t][1] = "Invalid Configuration"
             [] raised[t].type = "IOError" /\ raised[t].errno = ENOSPC ->
                  /\ resp[t] = HTTP_TOO_LARGE
                  /\ body[t][1] = "Insufficient Space"
             [] raised[t].type = "IOError" /\ raised[t].errno # ENOSPC ->
                  /\ resp[t] = HTTP_SERVER_ERROR
                  /\ body[t][1] = "Failed Disk IO"
             [] OTHER ->
                  /\ resp[t] = HTTP_SERVER_ERROR
                  /\ body[t][1] = "Internal Error"
                  /\ body[t] = HandleFailurePage(NoError)

C16_Witness ==
    \E t \in Threads :
        /\ pc[t] = "done" /\ raised[t].type = "ValueError"
        /\ resp[t] = HTTP_SERVER_ERROR
        /\ body[t][1] = "Internal Error"
        /\ nreq >= 2

\* The image save_from_dataset looks at next in thread t.
NextImage(t) == <<run[t], varname[t], Min(todo[t])>>

\* C17: when all segments of a variable are asked for after some were rendered
\* before, a segment whose image is there is not rendered again and makes the
\* call neither fail nor report created; a segment whose image is missing
\* is rendered.
C17_PartialFanOut ==
    [][\A t \in Threads :
          (pc[t] = "render" /\ StepOf(t))
          => IF NextImage(t) \in imgs
             THEN /\ pc'[t] \notin {"render_write", "done"}
                  /\ imgs' = imgs /\ partial' = partial
                  /\ img_created'[t] = img_created[t]
                  /\ todo'[t] = todo[t] \ {Min(todo[t])}
             ELSE /\ pc'[t] = "render_write"
                  /\ imgs' = imgs \cup {NextImage(t)}]_vars

C17_Witness ==
    \E t \in Threads :
        /\ kind[t] = "multi" /\ pc[t] = "render_write"
        /\ todo[t] = Segs \ {0}
        /\ ~img_created[t]
        /\ imgs \ partial = {<<run[t], varname[t], 0>>}

\* C18: an archive request that finds the archive at the checked path calls
\* neither save_from_dataset nor make_archive and changes nothing on the store;
\* one that does not find it calls ensure_image_output for all segments and
\* then make_archive, each once.
C18_ArchiveOnlyOnMiss ==
    /\ [][\A t \in Threads :
            /\ (pc[t] = "zip_check" /\ StepOf(t))
               => /\ store' = store /\ trace'[t] = <<"ds_ret">>
                  /\ pc'[t] = IF IsFile(CheckedArchivePath(t))
                              THEN "send_zip" ELSE "img_output"
            /\ (kind[t] = "multi" /\ pc[t] = "img_output" /\ InRenderer(t)')
               => todo'[t] = Segs
            /\ (pc[t] = "send_zip" /\ StepOf(t))
               => (pc'[t] = "done" /\ store' = store)]_vars
    /\ [](\A t \in Threads :
            (kind[t] = "multi" /\ pc[t] = "send_zip")
            => trace[t] \in {<<"ds_ret">>, Stages})

C18_Witness ==
    \E t \in Threads :
        /\ kind[t] = "multi" /\ pc[t] = "send_zip"
        /\ trace[t] = <<"ds_ret">>
        /\ IsFile(CheckedArchivePath(t))
        /\ zipContent[<<run[t], varname[t]>>] = Segs

\* C19: a single-image request that has reached img_fs_lock.acquire()
\* eventually holds the lock.
C19_AcquireEventually ==
    \A t \in Threads : (pc[t] = "acquire") ~> (pc[t] = "img_output")

\* Thread t is inside the ensure_image_output call of single_model_data.
InSingleImageOutput(t) ==
    kind[t] = "single" /\ (pc[t] = "img_output" \/ InRenderer(t))

\* C20: at most one single-image request at a time is inside
\* ensure_image_output, whatever the run ids of the requests.
C20_SingleImageSerialized ==
    Cardinality({t \in Threads : InSingleImageOutput(t)}) <= 1

C20_Witness ==
    \E t, u \in Threads :
        /\ kind[t] = "single" /\ kind[u] = "single"
        /\ run[t] # run[u]
        /\ pc[t] = "render_write"
        /\ pc[u] = "acquire"

MeanCall == \E data \in NumTables : CallStat("mean", <<data>>)

MeanReturn == stat.fn = "mean" /\ EndStat(stat.args, Mean(stat.args[1]))

VarianceCall == \E data \in NumTables : CallStat("variance", <<data>>)

VarianceReturn == stat.fn = "variance" /\ EndStat(stat.args, Variance(stat.args[1]))

StdDevCall == \E data \in NumTables : CallStat("std_dev", <<data>>)

StdDevReturn == stat.fn = "std_dev" /\ EndStat(stat.args, StdDev(stat.args[1]))

MergeCall ==
    \E table1 \in StrTables, table2 \in StrTables, sep \in Separators :
        CallStat("merge_str_tables", <<table1, table2, sep>>)

MergeReturn ==
    /\ stat.fn = "merge_str_tables"
    /\ EndStat(stat.args, MergeStrTables(stat.args[1], stat.args[2], stat.args[3]))

ConvertCall == \E table \in GridTables : CallStat("convert_table_to_strs", <<table>>)

ConvertReturn ==
    /\ stat.fn = "convert_table_to_strs"
    /\ EndStat(stat.args, ConvertTableToStrs(stat.args[1]))

\* ------------------------------------------- data/statistics.py, checked
\* Calls of sum_table, one after another, with tables and modifiers of all
\* kinds.
SumTableNext == SumTableCall \/ SumTableReturn \/ StatDone

SumTableSpec == Init /\ [][SumTableNext]_vars

\* The elements of a table, of whatever nesting, in order.
RECURSIVE Leaves(_)
Leaves(table) ==
    IF table.tag # "ndarray" THEN <<table>>
    ELSE IF table.items = <<>> THEN <<>>
    ELSE Leaves(Head(table.items)) \o Leaves(Ndarray(Tail(table.items)))

\* The valid elements: neither None nor nan.
ValidLeaves(table) == SelectSeq(Leaves(table), LAMBDA x : x.tag = "num")

\* The sum of modifier m over a sequence of numbers.
RECURSIVE SumOver(_, _)
SumOver(xs, m) ==
    IF xs = <<>> THEN 0 ELSE ApplyModifier(m, Head(xs).val) + SumOver(Tail(xs), m)

\* C21: sum_table(table, modifier) returns (the sum of modifier over the
\* valid elements of table, the number of valid elements); None and nan are
\* skipped without an error, and no valid element gives (0, 0).
C21_SumTableSkipsInvalid ==
    (stat.fn = "sum_table" /\ stat.ended)
    => /\ stat.raised = "none"
       /\ stat.value = <<SumOver(ValidLeaves(stat.args[1]), stat.args[2]),
                         Len(ValidLeaves(stat.args[1]))>>

\* Calls of mean, variance and std_dev, one after another.
VarianceNext ==
    \/ MeanCall \/ MeanReturn \/ VarianceCall \/ VarianceReturn
    \/ StdDevCall \/ StdDevReturn \/ StatDone

VarianceSpec == Init /\ [][VarianceNext]_vars

\* Two fractions are the same number.
SameNumber(a, b) == a.num * b.den = b.num * a.den

\* The mean of the squared deviations of the valid elements of data from the
\* mean m = m.num / m.den of data: with n valid elements x, the sum of
\* ((x * m.den - m.num) / m.den) ^ 2, divided by n.
RECURSIVE SumSquaredDeviations(_, _)
SumSquaredDeviations(xs, m) ==
    IF xs = <<>> THEN 0
    ELSE (Head(xs).val * m.den - m.num) * (Head(xs).val * m.den - m.num)
         + SumSquaredDeviations(Tail(xs), m)

MeanSquaredDeviation(data) ==
    LET m == Mean(data).value
    IN Float(SumSquaredDeviations(ValidLeaves(data), m),
             m.den * m.den * Len(ValidLeaves(data)))

\* data has no element that is None.
NoNone(data) == \A i \in 1..Len(Leaves(data)) : Leaves(data)[i].tag # "None"

\* C22: for data of numbers and nan, variance(data) is the mean of the squared
\* deviations of the valid elements from mean(data), and nan when there is no
\* valid element; std_dev(data) is the square root of that.
C22_VarianceOfValidElements ==
    (stat.fn \in {"variance", "std_dev"} /\ stat.ended /\ NoNone(stat.args[1]))
    => /\ stat.raised = "none"
       /\ IF ValidLeaves(stat.args[1]) = <<>>
          THEN stat.value = FloatNaN
          ELSE /\ stat.value.kind = IF stat.fn = "variance" THEN "num" ELSE "sqrt"
               /\ SameNumber(stat.value, MeanSquaredDeviation(stat.args[1]))

\* Calls of merge_str_tables, one after another.
MergeNext == MergeCall \/ MergeReturn \/ StatDone

MergeSpec == Init /\ [][MergeNext]_vars

\* C23: merge_str_tables(table1, table2, sep) raises IndexError and returns
\* nothing for tables of different length; for tables of one length it returns
\* a list of that length whose i-th row is table1[i], sep, table2[i]; the
\* tables given are as they were.
C23_MergeStrTables ==
    (stat.fn = "merge_str_tables" /\ stat.ended)
    => LET table1 == stat.given[1]
           table2 == stat.given[2]
           sep == stat.given[3]
       IN /\ stat.args = stat.given
          /\ IF Len(table1) # Len(table2)
             THEN stat.raised = "IndexError" /\ stat.value = <<>>
             ELSE /\ stat.raised = "none"
                  /\ Len(stat.value) = Len(table1)
                  /\ \A i \in 1..Len(table1) :
                        stat.value[i] = table1[i] \o sep \o table2[i]

C23_Witness ==
    /\ stat.fn = "merge_str_tables" /\ stat.ended /\ stat.raised = "none"
    /\ Len(stat.value) >= 2
    /\ stat.value[1] # stat.value[2]
    /\ stat.given[3] = Spaces(MergeSepWidth)

\* Calls of convert_table_to_strs, one after another.
ConvertNext == ConvertCall \/ ConvertReturn \/ StatDone

ConvertSpec == Init /\ [][ConvertNext]_vars

\* The heading row of n columns with cells of width length: the names
\* "Division 1" .. "Division n", each padded to the width of a cell.
HeadingRow(n, length) ==
    Join(ColumnDivider, [i \in 1..n |-> Ljust(DivisionWord \o ToStr(i), length)])

\* C24: convert_table_to_strs(table) returns len(table) + 2 rows: the heading
\* row "Division 1" .. "Division n", the divider row, and the rows of the
\* table from the last one to the first.
C24_TableRowsTopDown ==
    (stat.fn = "convert_table_to_strs" /\ stat.ended)
    => LET table == stat.given[1]
           n == Len(table[1])
           cell_length == Log10Floor(Len(table)) + BaseCellLength
       IN /\ stat.raised = "none"
          /\ Len(stat.value) = Len(table) + 2
          /\ stat.value[1] = HeadingRow(n, cell_length)
          /\ \A i \in 1..Len(stat.value[2]) : stat.value[2][i] \in {"-", " ", "|"}
          /\ \A k \in 1..Len(table) :
                stat.value[2 + k] = FormatNumberRow(table[Len(table) + 1 - k], cell_length)

====
